---- MODULE Spec2Model ----
(***************************************************************************)
(* Model of src/hir.rs: with_tyctxt, make_input and create_config.         *)
(* One run of the model is one invocation of with_tyctxt.  The host        *)
(* compiler (rustc_interface) is seen through the results its stages       *)
(* hand back to with_tyctxt.                                               *)
(***************************************************************************)
EXTENDS Integers, Sequences, FiniteSets, TLC

\* Longest argument list explored.
MaxArgs ==
    3

\* The positional operands and flags an argument list is built from.
\* "-" is the stdin sentinel, "a.rs" a path; the "--" tokens are flags.
\* "--describe-lints" stands for the lint flag for which
\* get_cmd_lint_options reports describe_lints = true; "--bogus" is a flag
\* missing from rustc_optgroups().
Tokens ==
    {"-", "a.rs", "--describe-lints", "--crate-type=lib",
     "--crate-type=bogus", "--test", "--bogus"}

\* Tokens getopts treats as flags (they begin with "-" and are longer).
OptionTokens ==
    {"--describe-lints", "--crate-type=lib", "--crate-type=bogus",
     "--test", "--bogus"}

\* Flags registered by rustc_optgroups().
KnownOptions ==
    {"--describe-lints", "--crate-type=lib", "--crate-type=bogus", "--test"}

\* Crate kinds parse_crate_types_from_list accepts.
KnownCrateTypes ==
    {"lib", "rlib", "staticlib", "dylib", "cdylib", "bin", "proc-macro"}

\* What the host pipeline does with the analysed program.
Programs ==
    {"clean", "expansion_err", "diag_errors", "gcx_err"}

\* Values the callback of the caller may return.
CallbackValues ==
    {1, 2}

ArgLists ==
    UNION {[1..n -> Tokens] : n \in 0..MaxArgs}

Range(s) ==
    {s[i] : i \in 1..Len(s)}

IsOption(t) ==
    t \in OptionTokens

IsFree(t) ==
    t \notin OptionTokens

MissingMsg ==
    "missing file operand"

TooManyMsg ==
    "too many file operands"

StdinMsg ==
    "couldn't read from stdin, as it did not contain valid UTF-8"

ParseInputMsg ==
    "Failed to parse input"

CrateTypeMsg ==
    "unknown crate type"

OptionParseMsg ==
    "unrecognized option"

DescribeLintsMsg ==
    "describe-lints option is not allowed"

HostErrorMsg ==
    "host compilation error"

CompilationFailedMsg ==
    "Compilation failed, aborting"

CreateConfigErr ==
    "Failed to create_config"

NoMatches ==
    [opts |-> <<>>, free |-> <<>>]

NoInput ==
    [kind |-> "None", name |-> ""]

NoMakeInput ==
    [res |-> "unset", input |-> NoInput]

NoOpts ==
    [describe_lints |-> FALSE, crate_types |-> <<>>, test |-> FALSE,
     actually_rustdoc |-> FALSE]

NoConfig ==
    [opts |-> NoOpts, input |-> NoInput, override_queries |-> <<>>]

NoResult ==
    [tag |-> "None", val |-> 0, msg |-> ""]

OkResult(v) ==
    [tag |-> "Ok", val |-> v, msg |-> ""]

ErrResult(m) ==
    [tag |-> "Err", val |-> 0, msg |-> m]

\* options.parse(&args): fails on the first flag that is not registered,
\* otherwise splits the list into flags and free (positional) operands.
getopts_parse(a) ==
    IF \E i \in 1..Len(a) : IsOption(a[i]) /\ a[i] \notin KnownOptions
    THEN [ok |-> FALSE, m |-> NoMatches]
    ELSE [ok |-> TRUE,
          m  |-> [opts |-> SelectSeq(a, IsOption),
                  free |-> SelectSeq(a, IsFree)]]

opt_present(m, o) ==
    o \in Range(m.opts)

IsCrateTypeOpt(t) ==
    t \in {"--crate-type=lib", "--crate-type=bogus"}

CrateTypeValue(t) ==
    IF t = "--crate-type=lib" THEN "lib" ELSE "bogus"

\* matches.opt_strs("crate-type")
opt_strs_crate_type(m) ==
    LET sel == SelectSeq(m.opts, IsCrateTypeOpt)
    IN  [i \in 1..Len(sel) |-> CrateTypeValue(sel[i])]

parse_crate_types_from_list(l) ==
    IF \E i \in 1..Len(l) : l[i] \notin KnownCrateTypes
    THEN [ok |-> FALSE, types |-> <<>>]
    ELSE [ok |-> TRUE, types |-> l]

\* describe_lints as returned by config::get_cmd_lint_options(matches, ..)
get_cmd_lint_options(m) ==
    opt_present(m, "--describe-lints")

\* The five results of make_input, with the effects that produced them.
StdinUnreadable ==
    [res |-> "Err", input |-> NoInput, emitted |-> <<StdinMsg>>,
     stdin_read |-> TRUE, file_opened |-> FALSE]

StrInput ==
    [res |-> "OkSome", input |-> [kind |-> "Str", name |-> "anon_source_code"],
     emitted |-> <<>>, stdin_read |-> TRUE, file_opened |-> FALSE]

FileInput(path) ==
    [res |-> "OkSome", input |-> [kind |-> "File", name |-> path],
     emitted |-> <<>>, stdin_read |-> FALSE, file_opened |-> FALSE]

MissingOperand ==
    [res |-> "OkNone", input |-> NoInput, emitted |-> <<MissingMsg>>,
     stdin_read |-> FALSE, file_opened |-> FALSE]

TooManyOperands ==
    [res |-> "OkNone", input |-> NoInput, emitted |-> <<TooManyMsg>>,
     stdin_read |-> FALSE, file_opened |-> FALSE]

\* Variant: the operand-count branches return without a diagnostic of
\* their own kind (both report "missing file operand").
make_input_SameMessage(free_matches, stdinOk) ==
    IF Len(free_matches) = 1
    THEN IF free_matches[1] = "-"
         THEN IF ~stdinOk THEN StdinUnreadable ELSE StrInput
         ELSE FileInput(free_matches[1])
    ELSE MissingOperand

\* Variant: a failed read of standard input is ignored and whatever was
\* read is passed on as the source.
make_input_LossyStdin(free_matches, stdinOk) ==
    IF Len(free_matches) = 1
    THEN IF free_matches[1] = "-"
         THEN StrInput
         ELSE FileInput(free_matches[1])
    ELSE IF Len(free_matches) = 0
         THEN MissingOperand
         ELSE TooManyOperands

\* Variant: standard input is consumed before the operands are counted,
\* whenever one of them is "-".
make_input_EagerStdin(free_matches, stdinOk) ==
    LET dash == "-" \in Range(free_matches)
    IN  IF Len(free_matches) = 1
        THEN IF free_matches[1] = "-"
             THEN IF ~stdinOk THEN StdinUnreadable ELSE StrInput
             ELSE FileInput(free_matches[1])
        ELSE IF Len(free_matches) = 0
             THEN MissingOperand
             ELSE [TooManyOperands EXCEPT !.stdin_read = dash]

make_input(free_matches, stdinOk) ==
    IF Len(free_matches) = 1
    THEN IF free_matches[1] = "-"
         THEN IF ~stdinOk
              THEN StdinUnreadable
              ELSE StrInput
         ELSE FileInput(free_matches[1])
    ELSE IF Len(free_matches) = 0
         THEN MissingOperand
         ELSE TooManyOperands

\* The provider table installed by override_queries.
override_queries ==
    [lint_mod |-> "noop", typeck_item_bodies |-> "noop",
     used_trait_imports |-> {}]

\* Variant: test mode follows the --test flag, as in the compiler driver.
sessopts_TestFlag(m, crate_types) ==
    [describe_lints |-> get_cmd_lint_options(m),
     crate_types |-> crate_types,
     test |-> opt_present(m, "--test"),
     actually_rustdoc |-> FALSE]

\* config::Options { .. } as filled in by create_config.
sessopts(m, crate_types) ==
    [describe_lints |-> get_cmd_lint_options(m),
     crate_types |-> crate_types,
     test |-> FALSE,
     actually_rustdoc |-> FALSE]

\* create_config returning None after emitting the given diagnostics.
ConfigNone(mi, emitted) ==
    [some |-> FALSE, cfg |-> NoConfig,
     made |-> [res |-> mi.res, input |-> mi.input],
     emitted |-> emitted,
     stdin_read |-> mi.stdin_read, file_opened |-> mi.file_opened]

\* create_config returning Some(interface::Config { .. }).
ConfigSome(mi, opts) ==
    [some |-> TRUE,
     cfg  |-> [opts |-> opts, input |-> mi.input,
               override_queries |-> override_queries],
     made |-> [res |-> mi.res, input |-> mi.input],
     emitted |-> mi.emitted,
     stdin_read |-> mi.stdin_read, file_opened |-> mi.file_opened]

\* Variant: unknown crate kinds are dropped instead of being fatal.
create_config_SkipUnknownCrateType(m, stdinOk) ==
    LET mi == make_input(m.free, stdinOk)
    IN  IF mi.res = "OkNone"
        THEN ConfigNone(mi, mi.emitted)
        ELSE IF mi.res = "Err"
        THEN ConfigNone(mi, mi.emitted \o <<ParseInputMsg>>)
        ELSE ConfigSome(mi, sessopts(m, <<>>))

\* Variant: every sub-step runs and reports before None is returned.
create_config_Accumulate(m, stdinOk) ==
    LET mi == make_input(m.free, stdinOk)
        ct == parse_crate_types_from_list(opt_strs_crate_type(m))
        inputDiags == IF mi.res = "Err"
                      THEN mi.emitted \o <<ParseInputMsg>>
                      ELSE mi.emitted
        crateDiags == IF ct.ok THEN <<>> ELSE <<CrateTypeMsg>>
    IN  IF mi.res # "OkSome" \/ ~ct.ok
        THEN ConfigNone(mi, inputDiags \o crateDiags)
        ELSE ConfigSome(mi, sessopts(m, ct.types))

create_config(m, stdinOk) ==
    LET mi == make_input(m.free, stdinOk)
        ct == parse_crate_types_from_list(opt_strs_crate_type(m))
    IN  IF mi.res = "OkNone"
        THEN ConfigNone(mi, mi.emitted)
        ELSE IF mi.res = "Err"
        THEN ConfigNone(mi, mi.emitted \o <<ParseInputMsg>>)
        ELSE IF ~ct.ok
        THEN ConfigNone(mi, mi.emitted \o <<CrateTypeMsg>>)
        ELSE ConfigSome(mi, sessopts(m, ct.types))

VARIABLES
    args,        \* rustc_args
    stdinValid,  \* whether standard input holds valid UTF-8 text
    program,     \* how the host pipeline fares on the analysed program
    callback,    \* the value the callback of the caller returns
    pc,          \* position inside with_tyctxt
    matches,     \* getopts matches
    made,        \* what make_input returned inside create_config
    config,      \* what create_config returned
    diags,       \* diagnostics emitted so far, in order
    stdinRead,   \* standard input has been consumed
    fileOpened,  \* the input file has been opened
    sessionOpen, \* interface::run_compiler opened a session
    cbCount,     \* number of callback invocations
    result,      \* value returned by with_tyctxt
    trace        \* stages started so far, in order

vars ==
    <<args, stdinValid, program, callback, pc, matches, made, config, diags,
      stdinRead, fileOpened, sessionOpen, cbCount, result, trace>>

inputs ==
    <<args, stdinValid, program, callback>>

Terminal ==
    {"returned", "aborted"}

Init ==
    /\ args \in ArgLists
    /\ stdinValid \in BOOLEAN
    /\ program \in Programs
    /\ callback \in CallbackValues
    /\ pc = "parse"
    /\ matches = NoMatches
    /\ made = NoMakeInput
    /\ config = [state |-> "unset", cfg |-> NoConfig]
    /\ diags = <<>>
    /\ stdinRead = FALSE
    /\ fileOpened = FALSE
    /\ sessionOpen = FALSE
    /\ cbCount = 0
    /\ result = NoResult
    /\ trace = <<>>

\* options.parse(&args[..]); a parse error is an early_error (diverges).
ParseArgs ==
    /\ pc = "parse"
    /\ trace' = Append(trace, "parse")
    /\ LET p == getopts_parse(args)
       IN  IF p.ok
           THEN /\ matches' = p.m
                /\ pc' = "create_config"
                /\ diags' = diags
           ELSE /\ matches' = matches
                /\ pc' = "aborted"
                /\ diags' = Append(diags, OptionParseMsg)
    /\ UNCHANGED <<inputs, made, config, stdinRead, fileOpened, sessionOpen,
                   cbCount, result>>

\* let config = match create_config(&matches) { .. None => return Err(..) }
CreateConfig ==
    /\ pc = "create_config"
    /\ trace' = Append(trace, "create_config")
    /\ LET r == create_config(matches, stdinValid)
       IN  /\ made' = r.made
           /\ diags' = diags \o r.emitted
           /\ stdinRead' = (stdinRead \/ r.stdin_read)
           /\ fileOpened' = (fileOpened \/ r.file_opened)
           /\ IF r.some
              THEN /\ config' = [state |-> "Some", cfg |-> r.cfg]
                   /\ pc' = "run_compiler"
                   /\ result' = result
              ELSE /\ config' = [state |-> "None", cfg |-> NoConfig]
                   /\ pc' = "returned"
                   /\ result' = ErrResult(CreateConfigErr)
    /\ UNCHANGED <<inputs, matches, sessionOpen, cbCount>>

\* interface::run_compiler(config, |compiler| { let sess = .. })
RunCompiler ==
    /\ pc = "run_compiler"
    /\ trace' = Append(trace, "run_compiler")
    /\ sessionOpen' = TRUE
    /\ pc' = "preflight"
    /\ UNCHANGED <<inputs, matches, made, config, diags, stdinRead,
                   fileOpened, cbCount, result>>

\* Variant: the describe-lints check only reports and goes on.
Preflight_NoAbort ==
    /\ pc = "preflight"
    /\ trace' = Append(trace, "preflight")
    /\ diags' = IF config.cfg.opts.describe_lints
                THEN Append(diags, DescribeLintsMsg) ELSE diags
    /\ pc' = "expansion"
    /\ UNCHANGED <<inputs, matches, made, config, stdinRead, fileOpened,
                   sessionOpen, cbCount, result>>

\* if sess.opts.describe_lints { early_error(..) }
Preflight ==
    /\ pc = "preflight"
    /\ trace' = Append(trace, "preflight")
    /\ IF config.cfg.opts.describe_lints
       THEN /\ diags' = Append(diags, DescribeLintsMsg)
            /\ pc' = "aborted"
       ELSE /\ diags' = diags
            /\ pc' = "expansion"
    /\ UNCHANGED <<inputs, matches, made, config, stdinRead, fileOpened,
                   sessionOpen, cbCount, result>>

\* abort_on_err(queries.expansion(), sess); the host reads a file input here.
Expansion ==
    /\ pc = "expansion"
    /\ trace' = Append(trace, "expansion")
    /\ fileOpened' = (fileOpened \/ config.cfg.input.kind = "File")
    /\ IF program = "expansion_err"
       THEN /\ diags' = Append(diags, HostErrorMsg)
            /\ pc' = "aborted"
       ELSE /\ diags' = IF program = "diag_errors"
                        THEN Append(diags, HostErrorMsg) ELSE diags
            /\ pc' = "error_check"
    /\ UNCHANGED <<inputs, matches, made, config, stdinRead, sessionOpen,
                   cbCount, result>>

\* Variant: the test is inverted (is_none for is_some).
has_errors_or_lint_errors_Inverted ==
    HostErrorMsg \notin Range(diags)

\* sess.diagnostic().has_errors_or_lint_errors()
has_errors_or_lint_errors ==
    HostErrorMsg \in Range(diags)

\* Variant: the accumulated-error check is left out.
ErrorCheck_NoAbort ==
    /\ pc = "error_check"
    /\ trace' = Append(trace, "error_check")
    /\ diags' = diags
    /\ pc' = "global_ctxt"
    /\ UNCHANGED <<inputs, matches, made, config, stdinRead, fileOpened,
                   sessionOpen, cbCount, result>>

\* if has_errors_or_lint_errors().is_some() { sess.fatal(..) }
ErrorCheck ==
    /\ pc = "error_check"
    /\ trace' = Append(trace, "error_check")
    /\ IF has_errors_or_lint_errors
       THEN /\ diags' = Append(diags, CompilationFailedMsg)
            /\ pc' = "aborted"
       ELSE /\ diags' = diags
            /\ pc' = "global_ctxt"
    /\ UNCHANGED <<inputs, matches, made, config, stdinRead, fileOpened,
                   sessionOpen, cbCount, result>>

\* Variant: the result of global_ctxt() is not passed through abort_on_err.
GlobalCtxt_NoAbort ==
    /\ pc = "global_ctxt"
    /\ trace' = Append(trace, "global_ctxt")
    /\ diags' = IF program = "gcx_err" THEN Append(diags, HostErrorMsg)
                ELSE diags
    /\ pc' = "callback"
    /\ UNCHANGED <<inputs, matches, made, config, stdinRead, fileOpened,
                   sessionOpen, cbCount, result>>

\* let global_ctxt = abort_on_err(queries.global_ctxt(), sess);
GlobalCtxt ==
    /\ pc = "global_ctxt"
    /\ trace' = Append(trace, "global_ctxt")
    /\ IF program = "gcx_err"
       THEN /\ diags' = Append(diags, HostErrorMsg)
            /\ pc' = "aborted"
       ELSE /\ diags' = diags
            /\ pc' = "callback"
    /\ UNCHANGED <<inputs, matches, made, config, stdinRead, fileOpened,
                   sessionOpen, cbCount, result>>

\* global_ctxt.enter(|tcx| Ok(callback(tcx)))
Callback ==
    /\ pc = "callback"
    /\ trace' = Append(trace, "callback")
    /\ cbCount' = cbCount + 1
    /\ result' = OkResult(callback)
    /\ pc' = "returned"
    /\ UNCHANGED <<inputs, matches, made, config, diags, stdinRead,
                   fileOpened, sessionOpen>>

Next ==
    \/ ParseArgs
    \/ CreateConfig
    \/ RunCompiler
    \/ Preflight
    \/ Expansion
    \/ ErrorCheck
    \/ GlobalCtxt
    \/ Callback

Spec ==
    Init /\ [][Next]_vars

(***************************************************************************)
(* Properties.                                                             *)
(***************************************************************************)
Done ==
    pc \in Terminal

Ran(stage) ==
    stage \in Range(trace)

\* The positional operands of an argument list.
Operands(a) ==
    SelectSeq(a, IsFree)

\* Every flag of the list is a registered one.
FlagsParse(a) ==
    \A i \in 1..Len(a) : a[i] \in OptionTokens => a[i] \in KnownOptions

DescribeLintsSupplied ==
    "--describe-lints" \in Range(args)

UnknownCrateTypeSupplied ==
    "--crate-type=bogus" \in Range(args)

InputUnresolvable ==
    \/ Len(Operands(args)) # 1
    \/ Operands(args) = <<"-">> /\ ~stdinValid

PipelineStages ==
    {"expansion", "error_check", "global_ctxt", "callback"}

NoPipelineStage ==
    /\ Range(trace) \cap PipelineStages = {}
    /\ cbCount = 0

MakeInputMsgs ==
    {MissingMsg, TooManyMsg, StdinMsg}

StageOrder ==
    <<"parse", "create_config", "run_compiler", "preflight", "expansion",
      "error_check", "global_ctxt", "callback">>

IsPrefix(s, t) ==
    /\ Len(s) <= Len(t)
    /\ \A i \in 1..Len(s) : s[i] = t[i]

\* Whether a stage, run on this invocation's inputs, ends in an error.
StageFails(stage) ==
    CASE stage = "parse" -> ~FlagsParse(args)
      [] stage = "create_config" ->
            InputUnresolvable \/ UnknownCrateTypeSupplied
      [] stage = "preflight" -> DescribeLintsSupplied
      [] stage = "expansion" -> program = "expansion_err"
      [] stage = "error_check" -> program \in {"expansion_err", "diag_errors"}
      [] stage = "global_ctxt" -> program = "gcx_err"
      [] OTHER -> FALSE

\* C1 as stated: whenever the arguments parse, the operands are exactly one
\* source file and the program has no expansion or global-context error,
\* with_tyctxt returns Ok(v) with v the callback's value, and the callback
\* ran exactly once.
C1_AsStated ==
    (Done /\ FlagsParse(args) /\ Operands(args) = <<"a.rs">>
          /\ program = "clean")
        => (pc = "returned" /\ result = OkResult(callback) /\ cbCount = 1)

\* C1 amended: the same, provided also that no unknown crate type is named
\* and describe-lints is not requested.
C1_OkIsCallbackValue ==
    (Done /\ FlagsParse(args) /\ Operands(args) = <<"a.rs">>
          /\ program = "clean"
          /\ ~DescribeLintsSupplied /\ ~UnknownCrateTypeSupplied)
        => (pc = "returned" /\ result = OkResult(callback) /\ cbCount = 1)

C1_Witness ==
    /\ pc = "returned"
    /\ Operands(args) = <<"a.rs">>
    /\ result.tag = "Ok"
    /\ result.val = 2
    /\ cbCount = 1

\* C2: for zero operands or more than one, create_config returns None,
\* exactly one diagnostic is emitted (missing / too many file operands), no
\* session is opened and the callback is never invoked.
C2_OperandCount ==
    (Ran("create_config") /\ Len(matches.free) # 1)
        => /\ config.state = "None"
           /\ diags = IF Len(matches.free) = 0
                      THEN <<MissingMsg>> ELSE <<TooManyMsg>>
           /\ ~sessionOpen
           /\ ~Ran("run_compiler")
           /\ cbCount = 0

C2_Witness ==
    /\ Ran("create_config")
    /\ Len(matches.free) > 1
    /\ diags = <<TooManyMsg>>
    /\ config.state = "None"

C4_AsStated ==
    (Done /\ DescribeLintsSupplied)
        => (pc = "aborted" /\ NoPipelineStage)

\* C4 amended: whenever --describe-lints is supplied no pipeline stage is
\* reached; the invocation ends in a fatal abort, except that it returns
\* Err when create_config returns None.
C4_DescribeLints ==
    DescribeLintsSupplied =>
        /\ NoPipelineStage
        /\ Done => \/ pc = "aborted"
                   \/ /\ config.state = "None"
                      /\ result = ErrResult(CreateConfigErr)
        /\ (Done /\ config.state = "Some") =>
              (pc = "aborted" /\ trace[Len(trace)] = "preflight")

C4_Witness ==
    /\ DescribeLintsSupplied
    /\ pc = "aborted"
    /\ Ran("preflight")
    /\ DescribeLintsMsg \in Range(diags)

\* C5: when expansion returns an error, or errors or lint errors have
\* accumulated after expansion, the invocation aborts: global-context
\* construction never starts, the callback never runs, nothing is returned.
C5_ExpansionErrorsAbort ==
    (Ran("expansion") /\ program \in {"expansion_err", "diag_errors"})
        => /\ ~Ran("global_ctxt")
           /\ cbCount = 0
           /\ result = NoResult
           /\ pc # "returned"
           /\ Ran("error_check") => pc = "aborted"
           /\ program = "expansion_err" => pc = "aborted"

C5_Witness ==
    /\ program = "diag_errors"
    /\ Ran("error_check")
    /\ pc = "aborted"
    /\ CompilationFailedMsg \in Range(diags)

\* C6: with the sole operand "-" and an unreadable standard input,
\* make_input emits a diagnostic and returns Err with no input, create_config
\* returns None, and session, expansion, global context and callback are
\* never reached.
C6_StdinUnreadable ==
    (Ran("create_config") /\ matches.free = <<"-">> /\ ~stdinValid)
        => /\ made = [res |-> "Err", input |-> NoInput]
           /\ StdinMsg \in Range(diags)
           /\ config.state = "None"
           /\ ~sessionOpen
           /\ trace = <<"parse", "create_config">>
           /\ cbCount = 0

C6_Witness ==
    /\ Ran("create_config")
    /\ matches.free = <<"-">>
    /\ ~stdinValid
    /\ made.res = "Err"

\* C7: make_input consumes standard input only for the single operand "-";
\* a single other operand gives FileInput(path) with no stdin read, no file
\* opened and no diagnostic; zero or several operands (even with a "-"
\* among them) leave stdin unread and only emit the one diagnostic.
C7_MakeInputEffects ==
    Ran("create_config") =>
        /\ stdinRead <=> (matches.free = <<"-">>)
        /\ (Len(matches.free) = 1 /\ matches.free[1] # "-") =>
              /\ made = [res |-> "OkSome",
                         input |-> [kind |-> "File",
                                    name |-> matches.free[1]]]
              /\ Range(diags) \cap MakeInputMsgs = {}
              /\ ~Ran("expansion") => ~fileOpened
        /\ Len(matches.free) # 1 =>
              /\ made = [res |-> "OkNone", input |-> NoInput]
              /\ diags = IF Len(matches.free) = 0
                         THEN <<MissingMsg>> ELSE <<TooManyMsg>>
              /\ ~stdinRead
              /\ ~fileOpened

C7_Witness ==
    /\ Ran("create_config")
    /\ Len(matches.free) > 1
    /\ "-" \in Range(matches.free)
    /\ ~stdinRead

\* C8: the stages run in the fixed order parse, create_config, session
\* open, preflight, expansion, error check, global context, callback; none
\* runs twice, and a stage starts only when no earlier stage failed.
C8_StageOrder ==
    /\ IsPrefix(trace, StageOrder)
    /\ \A i \in 1..(Len(trace) - 1) : ~StageFails(trace[i])
    /\ (Done /\ trace # StageOrder) => StageFails(trace[Len(trace)])

C8_Witness ==
    /\ trace = StageOrder
    /\ pc = "returned"

\* C9: create_config stops at its first fatal sub-step: input resolution
\* comes before crate-type parsing, so with an invalid operand count and an
\* unknown crate type only the operand diagnostic is emitted.
C9_FirstFailureOnly ==
    Ran("create_config") =>
        /\ (Len(matches.free) # 1 /\ UnknownCrateTypeSupplied) =>
              /\ config.state = "None"
              /\ diags = IF Len(matches.free) = 0
                         THEN <<MissingMsg>> ELSE <<TooManyMsg>>
        /\ CrateTypeMsg \in Range(diags) =>
              /\ Range(diags) \cap (MakeInputMsgs \cup {ParseInputMsg}) = {}
              /\ config.state = "None"
        /\ made.res # "OkSome" => CrateTypeMsg \notin Range(diags)

C9_Witness ==
    /\ Ran("create_config")
    /\ Len(matches.free) = 0
    /\ UnknownCrateTypeSupplied
    /\ diags = <<MissingMsg>>

\* C10: every configuration create_config returns has test mode off, the
\* documentation-tool flag off, and the override table replacing exactly
\* lint_mod, typeck_item_bodies and used_trait_imports (the last with an
\* empty set), whatever the flags.
C10_FixedConfigFields ==
    config.state = "Some" =>
        /\ config.cfg.opts.test = FALSE
        /\ config.cfg.opts.actually_rustdoc = FALSE
        /\ DOMAIN config.cfg.override_queries =
              {"lint_mod", "typeck_item_bodies", "used_trait_imports"}
        /\ config.cfg.override_queries.used_trait_imports = {}

C10_Witness ==
    /\ config.state = "Some"
    /\ "--test" \in Range(args)
    /\ "--crate-type=lib" \in Range(args)
====
